---- MODULE Spec2Model ----
(***************************************************************************)
(* Model of the two IG_Migration scripts:                                  *)
(*   final.py      - training.csv + agreement.csv -> import.csv            *)
(*   gptstudies.py - studies.csv + assets.csv + contracts.csv -> import.json*)
(* Strings are sequences of one-character strings; Python's str            *)
(* comparison is the ordinal comparison of their code points.              *)
(***************************************************************************)
EXTENDS Integers, Sequences, FiniteSets, TLC

(***************************************************************************)
(* Python str primitives                                                   *)
(***************************************************************************)

\* The printable ASCII characters, code points 32..126 in order (code point 96
\* is written GRAVE; no string of the model holds it).
Printable ==
  << " ", "!", "\"", "#", "$", "%", "&", "'", "(", ")", "*", "+", ",", "-", ".", "/",
     "0", "1", "2", "3", "4", "5", "6", "7", "8", "9", ":", ";", "<", "=", ">", "?",
     "@", "A", "B", "C", "D", "E", "F", "G", "H", "I", "J", "K", "L", "M", "N", "O",
     "P", "Q", "R", "S", "T", "U", "V", "W", "X", "Y", "Z", "[", "\\", "]", "^", "_",
     "GRAVE", "a", "b", "c", "d", "e", "f", "g", "h", "i", "j", "k", "l", "m", "n", "o",
     "p", "q", "r", "s", "t", "u", "v", "w", "x", "y", "z", "{", "|", "}", "~" >>

\* ord(c)
Code(c) == 31 + (CHOOSE i \in 1..Len(Printable) : Printable[i] = c)

\* chr(n)
Chr(n) == Printable[n - 31]

\* Optional values: None, or a value wrapped in a one-element tuple.
None == << >>

Some(x) == << x >>

\* str.lower() of one character
LowerChar(c) == IF Code(c) \in 65..90 THEN Chr(Code(c) + 32) ELSE c

\* str.lower()
Lower(s) == [i \in 1..Len(s) |-> LowerChar(s[i])]

\* str.replace(a, b) for one-character a and b
Replace(s, a, b) == [i \in 1..Len(s) |-> IF s[i] = a THEN b ELSE s[i]]

\* c in s
Contains(s, c) == \E i \in 1..Len(s) : s[i] = c

\* str.lstrip() (the space is the only whitespace of the alphabet used)
RECURSIVE LStrip(_)
LStrip(s) == IF s # << >> /\ Head(s) = " " THEN LStrip(Tail(s)) ELSE s

\* str.rstrip()
RECURSIVE RStrip(_)
RStrip(s) ==
  IF s # << >> /\ s[Len(s)] = " " THEN RStrip(SubSeq(s, 1, Len(s) - 1)) ELSE s

\* str.strip()
Strip(s) == RStrip(LStrip(s))

\* a < b on str: ordinal, a proper prefix sorts first
RECURSIVE StrLess(_, _)
StrLess(a, b) ==
  IF b = << >> THEN FALSE
  ELSE IF a = << >> THEN TRUE
  ELSE IF Head(a) = Head(b) THEN StrLess(Tail(a), Tail(b))
  ELSE Code(Head(a)) < Code(Head(b))

\* (a1, a2) < (b1, b2) on tuples of two str
PairLess(a1, a2, b1, b2) == StrLess(a1, b1) \/ (a1 = b1 /\ StrLess(a2, b2))

\* str.isdigit() for a non-empty ASCII string
IsDigits(s) == s # << >> /\ \A i \in 1..Len(s) : Code(s[i]) \in 48..57

\* int(s) for a string of digits
RECURSIVE ToInt(_)
ToInt(s) ==
  IF s = << >> THEN 0
  ELSE 10 * ToInt(SubSeq(s, 1, Len(s) - 1)) + (Code(s[Len(s)]) - 48)

\* int(s): Some(n), or None for ValueError. Surrounding whitespace and one sign
\* are accepted.
int_text(s) ==
  LET t == Strip(s)
      signed == t # << >> /\ Head(t) \in {"+", "-"}
      body == IF signed THEN Tail(t) ELSE t
  IN  IF ~IsDigits(body) THEN None
      ELSE IF signed /\ Head(t) = "-" THEN Some(0 - ToInt(body))
      ELSE Some(ToInt(body))

\* n formatted as decimal digits, zero-padded to width w (%02d, %04d)
RECURSIVE Digits(_, _)
Digits(n, w) ==
  IF w = 0 THEN << >> ELSE Append(Digits(n \div 10, w - 1), Chr(48 + (n % 10)))

\* s.split(sep): the list of fields between the separators
RECURSIVE Split(_, _)
Split(s, sep) ==
  IF ~Contains(s, sep) THEN << s >>
  ELSE LET i == CHOOSE k \in 1..Len(s) :
                  s[k] = sep /\ \A j \in 1..(k - 1) : s[j] # sep
       IN  << SubSeq(s, 1, i - 1) >> \o Split(SubSeq(s, i + 1, Len(s)), sep)

\* calendar: days of a month
DaysInMonth(y, m) ==
  IF m \in {4, 6, 9, 11} THEN 30
  ELSE IF m # 2 THEN 31
  ELSE IF (y % 4 = 0 /\ y % 100 # 0) \/ y % 400 = 0 THEN 29
  ELSE 28

\* datetime.strptime(ds, "%d/%m/%Y"): Some(date) or None for ValueError.
\* %d and %m take one or two digits, %Y exactly four.
strptime_dmy(ds) ==
  LET p == Split(ds, "/")
  IN  IF Len(p) # 3 THEN None
      ELSE IF ~(IsDigits(p[1]) /\ IsDigits(p[2]) /\ IsDigits(p[3])) THEN None
      ELSE IF ~(Len(p[1]) \in 1..2 /\ Len(p[2]) \in 1..2 /\ Len(p[3]) = 4) THEN None
      ELSE LET d == ToInt(p[1])
               m == ToInt(p[2])
               y == ToInt(p[3])
           IN  IF y >= 1 /\ m \in 1..12 /\ d >= 1 /\ d <= DaysInMonth(y, m)
               THEN Some([year |-> y, month |-> m, day |-> d])
               ELSE None

\* datetime.strptime(ds, "%Y-%m-%d"): Some(date) or None for ValueError.
strptime_ymd(ds) ==
  LET p == Split(ds, "-")
  IN  IF Len(p) # 3 THEN None
      ELSE IF ~(IsDigits(p[1]) /\ IsDigits(p[2]) /\ IsDigits(p[3])) THEN None
      ELSE IF ~(Len(p[1]) = 4 /\ Len(p[2]) \in 1..2 /\ Len(p[3]) \in 1..2) THEN None
      ELSE LET y == ToInt(p[1])
               m == ToInt(p[2])
               d == ToInt(p[3])
           IN  IF y >= 1 /\ m \in 1..12 /\ d >= 1 /\ d <= DaysInMonth(y, m)
               THEN Some([year |-> y, month |-> m, day |-> d])
               ELSE None

\* dt.strftime("%Y-%m-%d")
strftime_ymd(dt) ==
  Digits(dt.year, 4) \o << "-" >> \o Digits(dt.month, 2) \o << "-" >> \o Digits(dt.day, 2)

\* sorted(S) for a set of str
RECURSIVE SortedStrs(_)
SortedStrs(S) ==
  IF S = {} THEN << >>
  ELSE LET m == CHOOSE x \in S : \A y \in S : ~StrLess(y, x)
       IN  << m >> \o SortedStrs(S \ {m})

(***************************************************************************)
(* State                                                                   *)
(***************************************************************************)

VARIABLES
  \* final.py
  pcU,          \* position in final.main
  training,     \* load_training's dict: username -> Some(date) | None
  agreements,   \* load_agreements' dict: username -> bool
  records,      \* merge_records' list of Record
  outputCsv,    \* rows written to import.csv, None before write_output
  \* gptstudies.py
  pc,                        \* position in gptstudies.main
  studyRows,                 \* data rows of studies.csv
  assetRows,                 \* data rows of assets.csv
  contractRows,              \* data rows of contracts.csv
  cursor,                    \* rows of the current file already consumed
  studies,                   \* read_studies' dict: CaseRef -> study
  assets_by_case,            \* read_assets_by_case's dict: CaseRef -> [asset]
  study_contracts_by_case,   \* read_study_contracts' dict: CaseRef -> [contract]
  import_data,               \* Some(build_import_json's list), None before
  errs,                      \* validate's issue list
  outputJson,                \* Some(content of import.json), None before the dump
  error                      \* Some(the ValueError raised), None if none

varsU == << pcU, training, agreements, records, outputCsv >>

varsS == << pc, studyRows, assetRows, contractRows, cursor, studies, assets_by_case,
            study_contracts_by_case, import_data, errs, outputJson, error >>

vars == << varsU, varsS >>

\* dict[key] = value
Put(d, key, value) ==
  [k \in (DOMAIN d) \cup {key} |-> IF k = key THEN value ELSE d[k]]

\* the empty dict
EmptyDict == << >>

(***************************************************************************)
(* final.py                                                                *)
(***************************************************************************)

EXT_SUFFIX ==
  << "#", "E", "X", "T", "#", "@", "l", "i", "v", "e", "u", "c", "l", "a", "c", ".",
     "o", "n", "m", "i", "c", "r", "o", "s", "o", "f", "t", ".", "c", "o", "m" >>

LOCAL_SUFFIX == << "@", "u", "c", "l", ".", "a", "c", ".", "u", "k" >>

normalise_username(raw) ==
  LET value == Lower(Strip(raw))
  IN  IF Contains(value, "@")
      THEN Replace(value, "@", "_") \o EXT_SUFFIX
      ELSE value \o LOCAL_SUFFIX

\* Raw cell texts of training.csv and agreement.csv.
OtherEmailTexts == { << >>, << " " >>, << "J", "@", "x" >>, << " ", "j", "@", "X" >> }

UserIDTexts == { << >>, << " " >>, << "b", "o" >>, << "B", "o", " " >> }

LastTrainedTexts ==
  { << >>,
    << "0", "5", "/", "0", "3", "/", "2", "0", "2", "4" >>,
    << "2", "0", "2", "4", "-", "0", "3", "-", "0", "5" >> }

ApprovedTexts ==
  { << >>, << "t", "r", "u", "e" >>, << " ", "T", "r", "u", "e" >>, << "n", "o" >> }

TrainingRowSet ==
  [other_email : OtherEmailTexts, userid : UserIDTexts, last_trained : LastTrainedTexts]

AgreementRowSet == [userid : UserIDTexts, approved : ApprovedTexts]

\* One iteration of load_training's loop: the dict after the row.
load_training_row(d, row) ==
  LET other_email == Strip(row.other_email)
      userid == Strip(row.userid)
      date_str == Strip(row.last_trained)
      training_date == IF date_str # << >> THEN strptime_dmy(date_str) ELSE None
  IN  IF other_email # << >> THEN Put(d, normalise_username(other_email), training_date)
      ELSE IF userid # << >> THEN Put(d, normalise_username(userid), training_date)
      ELSE d

\* One iteration of load_agreements' loop: the dict after the row.
load_agreements_row(d, row) ==
  IF row.userid = << >> \/ row.approved = << >> THEN d
  ELSE Put(d, normalise_username(row.userid),
           Lower(Strip(row.approved)) = << "t", "r", "u", "e" >>)

\* merge_records with all_users taken from the training dict alone
merge_TrainingOnly(tr, ag) ==
  LET all_users == SortedStrs(DOMAIN tr)
  IN  [i \in 1..Len(all_users) |->
         LET user == all_users[i]
         IN  [username |-> user,
              has_signed_agreement |-> IF user \in DOMAIN ag THEN ag[user] ELSE FALSE,
              nhsd_training_completed_at |-> tr[user]]]

\* merge_records' join of the two dicts
merge(tr, ag) ==
  LET all_users == SortedStrs((DOMAIN tr) \cup (DOMAIN ag))
  IN  [i \in 1..Len(all_users) |->
         LET user == all_users[i]
         IN  [username |-> user,
              has_signed_agreement |-> IF user \in DOMAIN ag THEN ag[user] ELSE FALSE,
              nhsd_training_completed_at |-> IF user \in DOMAIN tr THEN tr[user] ELSE None]]

\* write_output's row of one Record
csv_row(r) ==
  << r.username,
     IF r.has_signed_agreement THEN << "t", "r", "u", "e" >>
                               ELSE << "f", "a", "l", "s", "e" >>,
     IF r.nhsd_training_completed_at # None
     THEN strftime_ymd(r.nhsd_training_completed_at[1]) ELSE << >> >>

\* gptstudies.py not started, its input files empty
IdleS ==
  /\ pc = "read_studies"
  /\ studyRows = << >>
  /\ assetRows = << >>
  /\ contractRows = << >>
  /\ cursor = 0
  /\ studies = EmptyDict
  /\ assets_by_case = EmptyDict
  /\ study_contracts_by_case = EmptyDict
  /\ import_data = None
  /\ errs = << >>
  /\ outputJson = None
  /\ error = None

\* final.py not started
IdleU ==
  /\ pcU = "load_training"
  /\ training = EmptyDict
  /\ agreements = EmptyDict
  /\ records = << >>
  /\ outputCsv = None

InitU == IdleU /\ IdleS

\* load_training reads one more row of training.csv
LoadTrainingRow ==
  /\ pcU = "load_training"
  /\ \E row \in TrainingRowSet : training' = load_training_row(training, row)
  /\ UNCHANGED << pcU, agreements, records, outputCsv, varsS >>

\* training.csv is exhausted: load_training returns
LoadTrainingEnd ==
  /\ pcU = "load_training"
  /\ pcU' = "load_agreements"
  /\ UNCHANGED << training, agreements, records, outputCsv, varsS >>

\* load_agreements reads one more row of agreement.csv
LoadAgreementsRow ==
  /\ pcU = "load_agreements"
  /\ \E row \in AgreementRowSet : agreements' = load_agreements_row(agreements, row)
  /\ UNCHANGED << pcU, training, records, outputCsv, varsS >>

\* agreement.csv is exhausted: merge_records joins and returns
MergeRecords ==
  /\ pcU = "load_agreements"
  /\ records' = merge(training, agreements)
  /\ pcU' = "write_output"
  /\ UNCHANGED << training, agreements, outputCsv, varsS >>

WriteOutput ==
  /\ pcU = "write_output"
  /\ outputCsv' = Some([i \in 1..Len(records) |-> csv_row(records[i])])
  /\ pcU' = "done"
  /\ UNCHANGED << training, agreements, records, varsS >>

NextU ==
  \/ LoadTrainingRow
  \/ LoadTrainingEnd
  \/ LoadAgreementsRow
  \/ MergeRecords
  \/ WriteOutput

SpecUsers == InitU /\ [][NextU]_vars

(***************************************************************************)
(* gptstudies.py                                                           *)
(***************************************************************************)

VALIDATE_DATES == TRUE

\* enumerate(reader, start=2): the header is line 1
ENUMERATE_START == 2

\* enumerate(reader) left at its default start, shifted to 1
row_line_FromOne(n) == n + 1

\* The line number enumerate gives the row read after n earlier rows.
row_line(n) == n + ENUMERATE_START

parse_date(date_str) ==
  LET ds == Strip(date_str)
  IN  IF ds = << >> THEN None
      ELSE LET dt == strptime_dmy(ds)
           IN  IF dt = None THEN None ELSE Some(strftime_ymd(dt[1]))

validate_json_date(date_str) ==
  LET ds == Strip(date_str)
  IN  IF ds = << >> THEN None ELSE strptime_ymd(ds)

\* Cell texts of the three files.
S1 == << "S", "1" >>

S2 == << "S", "2" >>

DmyGood == << "0", "5", "/", "0", "3", "/", "2", "0", "2", "4" >>

DmyOther == << "3", "1", "/", "1", "2", "/", "2", "0", "2", "3" >>

IsoText == << "2", "0", "2", "4", "-", "0", "3", "-", "0", "5" >>

NoSuchDay == << "3", "1", "/", "0", "2", "/", "2", "0", "2", "4" >>

StudyRowSet ==
  { [CaseRef |-> S1, Title |-> << "t" >>, IAOSignoff |-> << >>],
    [CaseRef |-> << " ", "S", "1" >>, Title |-> << "u" >>, IAOSignoff |-> IsoText],
    [CaseRef |-> S2, Title |-> << "t" >>, IAOSignoff |-> DmyGood],
    [CaseRef |-> << " " >>, Title |-> << "t" >>, IAOSignoff |-> << >>] }

AssetRowSet ==
  { [CaseRef |-> S1, ID |-> << "A", "1" >>, Description |-> << "d" >>, Review |-> << >>,
     Tier |-> << >>],
    [CaseRef |-> S1, ID |-> << >>, Description |-> << "e" >>, Review |-> DmyGood,
     Tier |-> << "2" >>],
    [CaseRef |-> S2, ID |-> << "A", "1" >>, Description |-> << "c" >>, Review |-> << " " >>,
     Tier |-> << " ", "3" >>],
    [CaseRef |-> S1, ID |-> << " " >>, Description |-> << "d" >>, Review |-> IsoText,
     Tier |-> << >>],
    [CaseRef |-> S1, ID |-> << " " >>, Description |-> << "d" >>, Review |-> << >>,
     Tier |-> << "-", "1" >>],
    [CaseRef |-> S2, ID |-> << "A", "2" >>, Description |-> << "d" >>, Review |-> << >>,
     Tier |-> << "x" >>],
    [CaseRef |-> << >>, ID |-> << "A", "2" >>, Description |-> << "d" >>, Review |-> IsoText,
     Tier |-> << "x" >>] }

ContractRowSet ==
  { [CaseRef |-> S1, ID |-> << "K", "1" >>, Reference |-> << "f" >>,
     AgreementDate |-> << >>, Expiry |-> << >>],
    [CaseRef |-> S2, ID |-> << "K", "1" >>, Reference |-> << "g" >>,
     AgreementDate |-> DmyGood, Expiry |-> DmyOther],
    [CaseRef |-> S1, ID |-> << >>, Reference |-> << "f" >>,
     AgreementDate |-> << >>, Expiry |-> DmyOther],
    [CaseRef |-> S1, ID |-> << "K", "2" >>, Reference |-> << "f" >>,
     AgreementDate |-> DmyGood, Expiry |-> NoSuchDay],
    [CaseRef |-> << " " >>, ID |-> << "K", "2" >>, Reference |-> << "g" >>,
     AgreementDate |-> << >>, Expiry |-> << >>] }

\* The ValueErrors a reader raises: the message's template, the source and the
\* line it names, and the function that raised
missing_caseref(source, i, fn) ==
  [kind |-> "missing CaseRef", source |-> Some(source), line |-> Some(i), raised_in |-> fn]

invalid_date(source, i, fn) ==
  [kind |-> "Invalid date format", source |-> Some(source), line |-> Some(i),
   raised_in |-> fn]

\* int()'s own ValueError names neither
invalid_literal(fn) ==
  [kind |-> "invalid literal for int()", source |-> None, line |-> None, raised_in |-> fn]

\* A reader's result for one row: the error raised, or the dict after the row.
Raise(e, d) == [err |-> Some(e), val |-> d]

Return(d) == [err |-> None, val |-> d]

\* grouped.setdefault(case_ref, []).append(x)
AppendTo(grouped, case_ref, x) ==
  Put(grouped, case_ref,
      IF case_ref \in DOMAIN grouped THEN Append(grouped[case_ref], x) ELSE << x >>)

\* One iteration of read_studies' loop, for the row on line i
read_studies_row(d, row, i) ==
  LET case_ref == Strip(row.CaseRef)
  IN  IF case_ref = << >> THEN Raise(missing_caseref("Study", i, "read_studies"), d)
      ELSE Return(Put(d, case_ref,
                      [caseref |-> case_ref,
                       title |-> Strip(row.Title),
                       last_signoff |-> parse_date(row.IAOSignoff),
                       contracts |-> << >>,
                       assets |-> << >>]))

\* One iteration of read_assets_by_case's loop
read_assets_row(d, row, i) ==
  LET case_ref == Strip(row.CaseRef)
      expires_at == parse_date(row.Review)
      tier == int_text(IF row.Tier = << >> THEN << "0" >> ELSE row.Tier)
  IN  IF case_ref = << >> THEN Raise(missing_caseref("Asset", i, "read_assets_by_case"), d)
      ELSE IF VALIDATE_DATES /\ Strip(row.Review) # << >> /\ expires_at = None
      THEN Raise(invalid_date("assets.csv", i, "read_assets_by_case"), d)
      ELSE IF tier = None THEN Raise(invalid_literal("read_assets_by_case"), d)
      ELSE Return(AppendTo(d, case_ref,
                           [caseref |-> case_ref,
                            asset_sp_id |-> Strip(row.ID),
                            title |-> Strip(row.Description),
                            description |-> Strip(row.Description),
                            tier |-> tier[1],
                            expires_at |-> expires_at]))

\* One iteration of read_study_contracts' loop
read_contracts_row(d, row, i) ==
  LET case_ref == Strip(row.CaseRef)
      start_date == parse_date(row.AgreementDate)
      end_date == parse_date(row.Expiry)
  IN  IF case_ref = << >> THEN Raise(missing_caseref("Contract", i, "read_study_contracts"), d)
      ELSE IF VALIDATE_DATES /\ Strip(row.AgreementDate) # << >> /\ start_date = None
      THEN Raise(invalid_date("contracts.csv", i, "read_study_contracts"), d)
      ELSE IF VALIDATE_DATES /\ Strip(row.Expiry) # << >> /\ end_date = None
      THEN Raise(invalid_date("contracts.csv", i, "read_study_contracts"), d)
      ELSE Return(AppendTo(d, case_ref,
                           [caseref |-> case_ref,
                            contract_sp_id |-> Strip(row.ID),
                            filename |-> Strip(row.Reference),
                            start_date |-> start_date,
                            expiry_date |-> end_date]))

\* d.get(case_ref, <some other group>): a missing key falls back on a group
children_of_Fallback(d, case_ref) ==
  IF case_ref \in DOMAIN d THEN d[case_ref]
  ELSE IF DOMAIN d = {} THEN << >>
  ELSE d[CHOOSE k \in DOMAIN d : TRUE]

\* d.get(case_ref, [])
children_of(d, case_ref) == IF case_ref \in DOMAIN d THEN d[case_ref] ELSE << >>

\* The position list.sort gives x in an already sorted list: after every element
\* whose key is not greater (the sort is stable).
RECURSIVE InsertAsset(_, _)
InsertAsset(sorted, x) ==
  IF sorted = << >> THEN << x >>
  ELSE IF PairLess(x.asset_sp_id, x.title, Head(sorted).asset_sp_id, Head(sorted).title)
  THEN << x >> \o sorted
  ELSE << Head(sorted) >> \o InsertAsset(Tail(sorted), x)

\* assets.sort(key=lambda a: (asset_sp_id, title))
RECURSIVE sort_assets(_)
sort_assets(assets) ==
  IF assets = << >> THEN << >>
  ELSE InsertAsset(sort_assets(SubSeq(assets, 1, Len(assets) - 1)), assets[Len(assets)])

\* The study as build_import_json leaves it
built_study(study, abc, cbc) ==
  [study EXCEPT !.contracts = children_of(cbc, study.caseref),
                !.assets = sort_assets(children_of(abc, study.caseref))]

\* build_import_json's returned list: the studies sorted by caseref
build_import_json(st, abc, cbc) ==
  LET order == SortedStrs(DOMAIN st)
  IN  [i \in 1..Len(order) |-> built_study(st[order[i]], abc, cbc)]

\* An issue string of validate: its template and the values formatted into it
Issue(kind, study, ref, value) ==
  [kind |-> kind, study |-> study, ref |-> ref, value |-> value]

\* validate's running state
ValidateStart == [errors |-> << >>, seen_case |-> {}, seen_asset |-> {}, seen_contract |-> {}]

AddIssue(v, issue) == [v EXCEPT !.errors = Append(@, issue)]

\* The date check of one field
check_date(v, validate_dates, field, cr, ref, text) ==
  IF validate_dates /\ text # None /\ text[1] # << >> /\ validate_json_date(text[1]) = None
  THEN AddIssue(v, Issue(field, cr, ref, text[1]))
  ELSE v

\* The body of validate's loop over a study's contracts, for contract c
validate_contract(v, validate_dates, cr, c) ==
  LET cref == c.contract_sp_id
      v1 == IF cref = << >>
            THEN AddIssue(v, Issue("contract missing contract_sp_id", cr, << >>, << >>))
            ELSE IF cref \in v.seen_contract
            THEN AddIssue(v, Issue("Duplicate contract_sp_id", << >>, cref, << >>))
            ELSE [v EXCEPT !.seen_contract = @ \cup {cref}]
      v2 == check_date(v1, validate_dates, "invalid start_date", cr, cref, c.start_date)
  IN  check_date(v2, validate_dates, "invalid expiry_date", cr, cref, c.expiry_date)

\* validate's asset check without the exemption of blank asset_sp_id
validate_asset_NoExemption(v, validate_dates, cr, a) ==
  LET aref == a.asset_sp_id
      v1 == IF aref \in v.seen_asset
            THEN AddIssue(v, Issue("Duplicate asset_sp_id", << >>, aref, << >>))
            ELSE [v EXCEPT !.seen_asset = @ \cup {aref}]
  IN  check_date(v1, validate_dates, "invalid expires_at", cr, aref, a.expires_at)

\* The body of validate's loop over a study's assets, for asset a
validate_asset(v, validate_dates, cr, a) ==
  LET aref == a.asset_sp_id
      v1 == IF aref # << >>
            THEN IF aref \in v.seen_asset
                 THEN AddIssue(v, Issue("Duplicate asset_sp_id", << >>, aref, << >>))
                 ELSE [v EXCEPT !.seen_asset = @ \cup {aref}]
            ELSE v
  IN  check_date(v1, validate_dates, "invalid expires_at", cr, aref, a.expires_at)

RECURSIVE validate_contracts(_, _, _, _)
validate_contracts(v, validate_dates, cr, cs) ==
  IF cs = << >> THEN v
  ELSE validate_contracts(validate_contract(v, validate_dates, cr, Head(cs)),
                          validate_dates, cr, Tail(cs))

RECURSIVE validate_assets(_, _, _, _)
validate_assets(v, validate_dates, cr, as) ==
  IF as = << >> THEN v
  ELSE validate_assets(validate_asset(v, validate_dates, cr, Head(as)),
                       validate_dates, cr, Tail(as))

\* validate's study loop with seen_contract created anew for every study
validate_study_SeenPerStudy(v, validate_dates, s) ==
  LET cr == s.caseref
      v1 == IF cr = << >> THEN AddIssue(v, Issue("Study missing CaseRef", << >>, << >>, << >>))
            ELSE IF cr \in v.seen_case
            THEN AddIssue(v, Issue("Duplicate CaseRef in merged data", cr, << >>, << >>))
            ELSE [v EXCEPT !.seen_case = @ \cup {cr}]
      v2 == validate_contracts([v1 EXCEPT !.seen_contract = {}], validate_dates, cr,
                               s.contracts)
  IN  validate_assets(v2, validate_dates, cr, s.assets)

\* The body of validate's loop over the studies, for study s
validate_study(v, validate_dates, s) ==
  LET cr == s.caseref
      v1 == IF cr = << >> THEN AddIssue(v, Issue("Study missing CaseRef", << >>, << >>, << >>))
            ELSE IF cr \in v.seen_case
            THEN AddIssue(v, Issue("Duplicate CaseRef in merged data", cr, << >>, << >>))
            ELSE [v EXCEPT !.seen_case = @ \cup {cr}]
      v2 == validate_contracts(v1, validate_dates, cr, s.contracts)
  IN  validate_assets(v2, validate_dates, cr, s.assets)

RECURSIVE validate_studies(_, _, _)
validate_studies(v, validate_dates, data) ==
  IF data = << >> THEN v
  ELSE validate_studies(validate_study(v, validate_dates, Head(data)),
                        validate_dates, Tail(data))

\* validate's returned list
validate(data, validate_dates) == validate_studies(ValidateStart, validate_dates, data).errors

\* A reader's whole loop over the rows of its file, from the row after the n-th
RECURSIVE read_rows(_, _, _, _)
read_rows(source, rows, n, d) ==
  IF n = Len(rows) THEN Return(d)
  ELSE LET r == CASE source = "Study" -> read_studies_row(d, rows[n + 1], row_line(n))
                  [] source = "Asset" -> read_assets_row(d, rows[n + 1], row_line(n))
                  [] OTHER -> read_contracts_row(d, rows[n + 1], row_line(n))
       IN  IF r.err # None THEN r ELSE read_rows(source, rows, n + 1, r.val)

\* main up to the dump, as a function of the three files: Some(import_data), or
\* None when a reader raises
run_main(srows, arows, crows) ==
  LET st == read_rows("Study", srows, 0, EmptyDict)
      abc == read_rows("Asset", arows, 0, EmptyDict)
      cbc == read_rows("Contract", crows, 0, EmptyDict)
  IN  IF st.err # None \/ abc.err # None \/ cbc.err # None THEN None
      ELSE Some(build_import_json(st.val, abc.val, cbc.val))

\* Total number of data rows in the three files
MaxRows == 4

InitS ==
  /\ IdleU
  /\ pc = "read_studies"
  /\ \E ns \in 0..MaxRows : \E na \in 0..(MaxRows - ns) : \E nc \in 0..(MaxRows - ns - na) :
       /\ studyRows \in [1..ns -> StudyRowSet]
       /\ assetRows \in [1..na -> AssetRowSet]
       /\ contractRows \in [1..nc -> ContractRowSet]
  /\ cursor = 0
  /\ studies = EmptyDict
  /\ assets_by_case = EmptyDict
  /\ study_contracts_by_case = EmptyDict
  /\ import_data = None
  /\ errs = << >>
  /\ outputJson = None
  /\ error = None

\* read_studies reads the next row of studies.csv
ReadStudiesRow ==
  /\ pc = "read_studies"
  /\ cursor < Len(studyRows)
  /\ LET r == read_studies_row(studies, studyRows[cursor + 1], row_line(cursor))
     IN  IF r.err # None
         THEN /\ error' = r.err
              /\ pc' = "aborted"
              /\ UNCHANGED << cursor, studies >>
         ELSE /\ studies' = r.val
              /\ cursor' = cursor + 1
              /\ UNCHANGED << pc, error >>
  /\ UNCHANGED << studyRows, assetRows, contractRows, assets_by_case,
                  study_contracts_by_case, import_data, errs, outputJson, varsU >>

\* studies.csv is exhausted: read_studies returns, read_assets_by_case starts
ReadStudiesEnd ==
  /\ pc = "read_studies"
  /\ cursor = Len(studyRows)
  /\ pc' = "read_assets"
  /\ cursor' = 0
  /\ UNCHANGED << studyRows, assetRows, contractRows, studies, assets_by_case,
                  study_contracts_by_case, import_data, errs, outputJson, error, varsU >>

\* read_assets_by_case reads the next row of assets.csv
ReadAssetsRow ==
  /\ pc = "read_assets"
  /\ cursor < Len(assetRows)
  /\ LET r == read_assets_row(assets_by_case, assetRows[cursor + 1], row_line(cursor))
     IN  IF r.err # None
         THEN /\ error' = r.err
              /\ pc' = "aborted"
              /\ UNCHANGED << cursor, assets_by_case >>
         ELSE /\ assets_by_case' = r.val
              /\ cursor' = cursor + 1
              /\ UNCHANGED << pc, error >>
  /\ UNCHANGED << studyRows, assetRows, contractRows, studies,
                  study_contracts_by_case, import_data, errs, outputJson, varsU >>

\* assets.csv is exhausted: read_study_contracts starts
ReadAssetsEnd ==
  /\ pc = "read_assets"
  /\ cursor = Len(assetRows)
  /\ pc' = "read_contracts"
  /\ cursor' = 0
  /\ UNCHANGED << studyRows, assetRows, contractRows, studies, assets_by_case,
                  study_contracts_by_case, import_data, errs, outputJson, error, varsU >>

\* read_study_contracts reads the next row of contracts.csv
ReadContractsRow ==
  /\ pc = "read_contracts"
  /\ cursor < Len(contractRows)
  /\ LET r == read_contracts_row(study_contracts_by_case, contractRows[cursor + 1],
                                 row_line(cursor))
     IN  IF r.err # None
         THEN /\ error' = r.err
              /\ pc' = "aborted"
              /\ UNCHANGED << cursor, study_contracts_by_case >>
         ELSE /\ study_contracts_by_case' = r.val
              /\ cursor' = cursor + 1
              /\ UNCHANGED << pc, error >>
  /\ UNCHANGED << studyRows, assetRows, contractRows, studies, assets_by_case,
                  import_data, errs, outputJson, varsU >>

\* contracts.csv is exhausted: the three dicts are ready
ReadContractsEnd ==
  /\ pc = "read_contracts"
  /\ cursor = Len(contractRows)
  /\ pc' = "build"
  /\ UNCHANGED << studyRows, assetRows, contractRows, cursor, studies, assets_by_case,
                  study_contracts_by_case, import_data, errs, outputJson, error, varsU >>

\* import_data = build_import_json(...): the study dicts and the asset lists of the
\* studies are changed in place
BuildImportJson ==
  /\ pc = "build"
  /\ import_data' = Some(build_import_json(studies, assets_by_case, study_contracts_by_case))
  /\ studies' = [k \in DOMAIN studies |->
                   built_study(studies[k], assets_by_case, study_contracts_by_case)]
  /\ assets_by_case' = [k \in DOMAIN assets_by_case |->
                          IF k \in DOMAIN studies THEN sort_assets(assets_by_case[k])
                          ELSE assets_by_case[k]]
  /\ pc' = "validate"
  /\ UNCHANGED << studyRows, assetRows, contractRows, cursor, study_contracts_by_case,
                  errs, outputJson, error, varsU >>

\* errs = validate(import_data, validate_dates=VALIDATE_DATES); the issues are printed
Validate ==
  /\ pc = "validate"
  /\ errs' = validate(import_data[1], VALIDATE_DATES)
  /\ pc' = "write"
  /\ UNCHANGED << studyRows, assetRows, contractRows, cursor, studies, assets_by_case,
                  study_contracts_by_case, import_data, outputJson, error, varsU >>

\* json.dump(import_data, f)
WriteJson ==
  /\ pc = "write"
  /\ outputJson' = import_data
  /\ pc' = "done"
  /\ UNCHANGED << studyRows, assetRows, contractRows, cursor, studies, assets_by_case,
                  study_contracts_by_case, import_data, errs, error, varsU >>

Next ==
  \/ ReadStudiesRow
  \/ ReadStudiesEnd
  \/ ReadAssetsRow
  \/ ReadAssetsEnd
  \/ ReadContractsRow
  \/ ReadContractsEnd
  \/ BuildImportJson
  \/ Validate
  \/ WriteJson

Spec == InitS /\ [][Next]_vars

(***************************************************************************)
(* Properties of final.py (specification SpecUsers)                        *)
(***************************************************************************)

\* The identities the loaders have filed so far: each is normalise_username(r)
\* of some raw identifier r.
Identities == (DOMAIN training) \cup (DOMAIN agreements)

\* C1: normalise_username is idempotent: normalising an identity that is already
\* canonical, normalise_username(r), returns it unchanged.
C1_Idempotent == \A u \in Identities : normalise_username(u) = u

Usernames == { records[i].username : i \in 1..Len(records) }

\* C2: merge_records returns exactly one Record per identity of the union of the
\* two dicts' keys and none for any other identity; a Record absent from the
\* agreement dict has has_signed_agreement = False, one absent from the training
\* dict has nhsd_training_completed_at = None.
C2_MergeIsTotalJoin ==
  pcU \in {"write_output", "done"} =>
    /\ Usernames = Identities
    /\ Len(records) = Cardinality(Identities)
    /\ \A i \in 1..Len(records) :
         /\ records[i].username \notin DOMAIN agreements
              => records[i].has_signed_agreement = FALSE
         /\ records[i].username \notin DOMAIN training
              => records[i].nhsd_training_completed_at = None

\* C2's case: a merge over identities found in one source only and in both.
C2_Witness ==
  /\ pcU = "write_output"
  /\ (DOMAIN training) \ (DOMAIN agreements) # {}
  /\ (DOMAIN agreements) \ (DOMAIN training) # {}
  /\ (DOMAIN training) \cap (DOMAIN agreements) # {}

\* C10: every loader filters blank raw identifiers before normalising, so no
\* Record has the bare local suffix '@ucl.ac.uk' as its username.
C10_NoBareLocalSuffix == \A i \in 1..Len(records) : records[i].username # LOCAL_SUFFIX

(***************************************************************************)
(* Properties of gptstudies.py (specification Spec)                        *)
(***************************************************************************)

\* A row whose CaseRef is empty or whitespace-only
BlankCaseRef(row) == Strip(row.CaseRef) = << >>

\* The CaseRefs of the study rows, trimmed
StudyKeys == { Strip(studyRows[k].CaseRef) : k \in 1..Len(studyRows) }

\* All permutations of a list
Perms(rows) ==
  { [i \in 1..Len(rows) |-> rows[p[i]]] :
      p \in { q \in [1..Len(rows) -> 1..Len(rows)] :
                \A i, j \in 1..Len(rows) : q[i] = q[j] => i = j } }

\* C3: the output is independent of the order of the rows of each file: reading
\* and building from any permutation of the rows gives the same output.
C3_OrderIndependent ==
  pc = "done" =>
    \A sp \in Perms(studyRows) : \A ap \in Perms(assetRows) : \A cp \in Perms(contractRows) :
      run_main(sp, ap, cp) = outputJson

Built == import_data[1]

\* C4: every child in a study's collection carries that study's caseref; a child
\* row whose CaseRef is no study's is in no collection; a study no child row names
\* has empty collections.
C4_DropPolicy ==
  import_data # None =>
    /\ \A i \in 1..Len(Built) :
         /\ \A j \in 1..Len(Built[i].assets) :
              Built[i].assets[j].caseref = Built[i].caseref
         /\ \A j \in 1..Len(Built[i].contracts) :
              Built[i].contracts[j].caseref = Built[i].caseref
         /\ (\A k \in 1..Len(assetRows) : Strip(assetRows[k].CaseRef) # Built[i].caseref)
              => Built[i].assets = << >>
         /\ (\A k \in 1..Len(contractRows) :
               Strip(contractRows[k].CaseRef) # Built[i].caseref)
              => Built[i].contracts = << >>
    /\ \A k \in 1..Len(assetRows) :
         Strip(assetRows[k].CaseRef) \notin StudyKeys =>
           \A i \in 1..Len(Built) : \A j \in 1..Len(Built[i].assets) :
             Built[i].assets[j].caseref # Strip(assetRows[k].CaseRef)
    /\ \A k \in 1..Len(contractRows) :
         Strip(contractRows[k].CaseRef) \notin StudyKeys =>
           \A i \in 1..Len(Built) : \A j \in 1..Len(Built[i].contracts) :
             Built[i].contracts[j].caseref # Strip(contractRows[k].CaseRef)

\* C4's case: an output built from an orphan contract row and a study that owns
\* a contract and has no asset.
C4_Witness ==
  /\ import_data # None
  /\ \E k \in 1..Len(contractRows) : Strip(contractRows[k].CaseRef) \notin StudyKeys
  /\ \E i \in 1..Len(Built) : Built[i].contracts # << >> /\ Built[i].assets = << >>

\* The contract rows whose trimmed ID is x
ContractRowsWithId(x) == { k \in 1..Len(contractRows) : Strip(contractRows[k].ID) = x }

\* The 'Duplicate contract_sp_id' entries of the issue list that name x
DuplicateContractIssues(x) ==
  { i \in 1..Len(errs) : errs[i].kind = "Duplicate contract_sp_id" /\ errs[i].ref = x }

ContractIds == { Strip(contractRows[k].ID) : k \in 1..Len(contractRows) } \ { << >> }

\* C5 as stated: whenever exactly two contract rows share a non-blank
\* contract_sp_id, validate's list holds exactly one duplicate entry naming it.
C5_OneDuplicatePerSharedId ==
  pc \in {"write", "done"} =>
    \A x \in ContractIds :
      Cardinality(ContractRowsWithId(x)) = 2 => Cardinality(DuplicateContractIssues(x)) = 1

\* C5 amended: ... and the CaseRef of both rows is the CaseRef of a study row.
C5_OneDuplicatePerSharedIdOfAttached ==
  pc \in {"write", "done"} =>
    \A x \in ContractIds :
      ( /\ Cardinality(ContractRowsWithId(x)) = 2
        /\ \A k \in ContractRowsWithId(x) : Strip(contractRows[k].CaseRef) \in StudyKeys )
      => Cardinality(DuplicateContractIssues(x)) = 1

\* C5's case: validate has run on two contracts of different studies that share
\* an id.
C5_Witness ==
  /\ pc = "write"
  /\ \E x \in ContractIds :
       /\ Cardinality(ContractRowsWithId(x)) = 2
       /\ \A k \in ContractRowsWithId(x) : Strip(contractRows[k].CaseRef) \in StudyKeys
       /\ \E k, l \in ContractRowsWithId(x) :
            Strip(contractRows[k].CaseRef) # Strip(contractRows[l].CaseRef)

\* The rows of the file a reader reads, and the noun its messages use
ReaderRows(fn) ==
  CASE fn = "read_studies" -> studyRows
    [] fn = "read_assets_by_case" -> assetRows
    [] OTHER -> contractRows

ReaderNoun(fn) ==
  CASE fn = "read_studies" -> "Study"
    [] fn = "read_assets_by_case" -> "Asset"
    [] OTHER -> "Contract"

\* The 1-based line of the k-th data row of a file: the header is line 1.
FileLine(k) == k + 1

\* The rows the readers have consumed without raising
RowsPassed ==
  CASE pc = "read_studies" -> { studyRows[k] : k \in 1..cursor }
    [] pc = "read_assets" ->
         { studyRows[k] : k \in 1..Len(studyRows) } \cup { assetRows[k] : k \in 1..cursor }
    [] pc = "read_contracts" ->
         { studyRows[k] : k \in 1..Len(studyRows) }
           \cup { assetRows[k] : k \in 1..Len(assetRows) }
           \cup { contractRows[k] : k \in 1..cursor }
    [] pc = "aborted" -> {}
    [] OTHER ->
         { studyRows[k] : k \in 1..Len(studyRows) }
           \cup { assetRows[k] : k \in 1..Len(assetRows) }
           \cup { contractRows[k] : k \in 1..Len(contractRows) }

Malformed(text) == Strip(text) # << >> /\ parse_date(text) = None

HasMalformedDate ==
  \/ \E k \in 1..Len(assetRows) : Malformed(assetRows[k].Review)
  \/ \E k \in 1..Len(contractRows) :
       Malformed(contractRows[k].AgreementDate) \/ Malformed(contractRows[k].Expiry)

NoBlankCaseRef ==
  /\ \A k \in 1..Len(studyRows) : ~BlankCaseRef(studyRows[k])
  /\ \A k \in 1..Len(assetRows) : ~BlankCaseRef(assetRows[k])
  /\ \A k \in 1..Len(contractRows) : ~BlankCaseRef(contractRows[k])

\* C7: a malformed date never stops a run: with strict validation on, a run whose
\* files hold a malformed asset or contract date (and no blank CaseRef) is never
\* aborted, and once validated its issue list reports the date.
C7_MalformedDateNeverFatal ==
  (VALIDATE_DATES /\ HasMalformedDate /\ NoBlankCaseRef) =>
    /\ pc # "aborted"
    /\ pc \in {"write", "done"} =>
         \E i \in 1..Len(errs) :
           errs[i].kind \in {"invalid start_date", "invalid expiry_date", "invalid expires_at"}

\* The assets, and the contracts, of all studies of a list
RECURSIVE AllAssets(_)
AllAssets(data) == IF data = << >> THEN << >> ELSE Head(data).assets \o AllAssets(Tail(data))

RECURSIVE AllContracts(_)
AllContracts(data) ==
  IF data = << >> THEN << >> ELSE Head(data).contracts \o AllContracts(Tail(data))

\* The number of issues of a kind that name ref
IssueCount(list, kind, ref) ==
  Cardinality({ i \in 1..Len(list) : list[i].kind = kind /\ list[i].ref = ref })

\* Every occurrence after the first
Repeats(n) == IF n = 0 THEN 0 ELSE n - 1

\* C8: validate reports every occurrence after the first of a non-blank
\* asset_sp_id or contract_sp_id, across all studies, as one duplicate issue;
\* blank asset_sp_ids yield no issue, blank contract_sp_ids yield a
\* missing-id issue each and no duplicate issue; validate returns (it does
\* not raise) and leaves the structure unchanged.
C8_ValidateUniqueness ==
  [][ pc = "validate" =>
        /\ pc' = "write"
        /\ error' = None
        /\ import_data' = import_data
        /\ studies' = studies
        /\ LET as == AllAssets(Built)
               cs == AllContracts(Built)
           IN  /\ \A j \in 1..Len(as) :
                    IssueCount(errs', "Duplicate asset_sp_id", as[j].asset_sp_id)
                      = IF as[j].asset_sp_id = << >> THEN 0
                        ELSE Repeats(Cardinality({ l \in 1..Len(as) :
                                          as[l].asset_sp_id = as[j].asset_sp_id }))
               /\ \A j \in 1..Len(cs) :
                    IssueCount(errs', "Duplicate contract_sp_id", cs[j].contract_sp_id)
                      = IF cs[j].contract_sp_id = << >> THEN 0
                        ELSE Repeats(Cardinality({ l \in 1..Len(cs) :
                                          cs[l].contract_sp_id = cs[j].contract_sp_id }))
               /\ Cardinality({ i \in 1..Len(errs') :
                                  errs'[i].kind = "contract missing contract_sp_id" })
                    = Cardinality({ l \in 1..Len(cs) : cs[l].contract_sp_id = << >> })
               /\ Cardinality({ i \in 1..Len(errs') :
                                  errs'[i].kind = "Duplicate asset_sp_id" })
                    = Cardinality({ l \in 1..Len(as) : as[l].asset_sp_id # << >> })
                      - Cardinality({ as[l].asset_sp_id : l \in 1..Len(as) } \ { << >> })
               /\ Cardinality({ i \in 1..Len(errs') :
                                  errs'[i].kind = "Duplicate contract_sp_id" })
                    = Cardinality({ l \in 1..Len(cs) : cs[l].contract_sp_id # << >> })
                      - Cardinality({ cs[l].contract_sp_id : l \in 1..Len(cs) } \ { << >> })
  ]_vars

\* C8's case: validate has run on a structure in which two studies hold an asset
\* of the same non-blank id, and reported it.
C8_Witness ==
  /\ pc = "write"
  /\ \E i, j \in 1..Len(Built) :
       /\ i # j
       /\ \E a \in 1..Len(Built[i].assets) : \E b \in 1..Len(Built[j].assets) :
            /\ Built[i].assets[a].asset_sp_id = Built[j].assets[b].asset_sp_id
            /\ Built[i].assets[a].asset_sp_id # << >>
  /\ \E i \in 1..Len(errs) : errs[i].kind = "Duplicate asset_sp_id"

\* C9: in every output the studies ascend by caseref, every study's assets
\* ascend by (asset_sp_id, title) and every study's contracts ascend by
\* contract_sp_id (whatever the secondary field, the primary one never descends).
C9_OutputSorted ==
  import_data # None =>
    /\ \A i \in 1..(Len(Built) - 1) : StrLess(Built[i].caseref, Built[i + 1].caseref)
    /\ \A i \in 1..Len(Built) :
         /\ \A j \in 1..(Len(Built[i].assets) - 1) :
              ~PairLess(Built[i].assets[j + 1].asset_sp_id, Built[i].assets[j + 1].title,
                        Built[i].assets[j].asset_sp_id, Built[i].assets[j].title)
         /\ \A j \in 1..(Len(Built[i].contracts) - 1) :
              ~StrLess(Built[i].contracts[j + 1].contract_sp_id,
                       Built[i].contracts[j].contract_sp_id)

====
